---- MODULE Spec2Model ----
(***************************************************************************)
(* Model of wikiseriesricardocli: main() parses the arguments, calls       *)
(* search_series(name) and then setup_logging(level, config_file).         *)
(* search_series issues one OpenSearch request, takes json()[3][0] as the  *)
(* article URL, fetches it, and scrapes season labels and episode titles   *)
(* out of the tables of the page.                                          *)
(*                                                                         *)
(* Texts (str) are sequences of one-character strings.  Python lists are   *)
(* sequences; Python index k is TLA+ index k + 1.  A dict is a sequence of *)
(* <<key, value>> pairs in insertion order.  A page is the sequence of its *)
(* table elements in document order (tables are not nested); each table    *)
(* carries its class set, the texts of its span.nowrap elements and the    *)
(* texts of its td.summary cells, both in document order.                  *)
(***************************************************************************)
EXTENDS Integers, Sequences, FiniteSets, TLC

VARIABLES
    logger_config,    \* args.logger_config: what --log-config points to
    web_search,       \* what the OpenSearch endpoint answers (environment)
    web_page,         \* what the article URL answers (environment)
    pc,               \* position of the run
    search_response,  \* local of search_series
    series_url,       \* local of search_series
    soup,             \* local of search_series: the parsed page
    season_table,     \* index in soup of the table found, 0 for None
    seasons_numbers,  \* local of search_series
    season_episodes,  \* local of search_series
    result,           \* the mapping returned by search_series
    fault,            \* the uncaught exception type, "" when none
    exit_status,      \* process exit status, -1 while running
    stdout,           \* what the run printed
    logging,          \* how logging was configured
    events            \* the requests and steps of the run, in order

vars == <<logger_config, web_search, web_page, pc, search_response, series_url,
          soup, season_table, seasons_numbers, season_episodes, result, fault,
          exit_status, stdout, logging, events>>

\* ---------------------------------------------------------------- bounds
MaxTables == 2     \* tables on a page
MaxElems == 3      \* span.nowrap and td.summary elements on a page
MaxTextLen == 4    \* characters in the text of a summary cell
MaxRespLen == 4    \* elements of the search response array
MaxUrls == 2       \* URLs in the search response array

\* ------------------------------------------------------ program constants
ResultsIndex == 3  \* json()[3]
FirstIndex == 0    \* json()[3][0]
TitleIndex == 1    \* split('"')[1]

Quote == "\""
API_URL == "https://en.wikipedia.org/w/api.php"
SeasonPrefix == <<"S", "e", "a", "s", "o", "n", " ">>
NotValidJson == "is not valid json, cannot continue."

\* ------------------------------------------------------------ input sets
SeqsUpTo(S, n) == UNION {[1..k -> S] : k \in 0..n}

Min(a, b) == IF a < b THEN a ELSE b

\* a table that carries neither class is seen by neither search
ClassSets == {{"wikitable"}, {"wikiepisodetable"}, {"wikitable", "wikiepisodetable"}}
Labels == {<<"1">>, <<"2">>}
Alphabet == {"a", "b", Quote}
SampleTexts == { <<Quote, "a", Quote>>, <<"a", Quote, "b", Quote>>, <<"a", "b">> }
AllTexts == SeqsUpTo(Alphabet, MaxTextLen)
Urls == {"u1", "u2"}

\* the ways to hand len items in order to n owners: who gets each item
Owners(len, n) == {o \in [1..len -> 1..n] : \A j \in 1..(len - 1) : o[j] <= o[j + 1]}

\* the items that owner i gets, in order
Part(items, o, i) ==
    LET before == Cardinality({j \in DOMAIN o : o[j] < i})
        here == Cardinality({j \in DOMAIN o : o[j] = i})
    IN SubSeq(items, before + 1, before + here)

\* the page whose i-th table has the classes cls[i] and its part of the
\* span.nowrap texts and td.summary texts of the page
StructurePage(cls, spans, so, cells, co) ==
    [i \in DOMAIN cls |->
        [classes |-> cls[i], spans |-> Part(spans, so, i), cells |-> Part(cells, co, i)]]

\* the page of one table, season table and episode table at once, under
\* label '1' with the given summary cells
TextPage(cells) ==
    <<[classes |-> {"wikitable", "wikiepisodetable"}, spans |-> << <<"1">> >>,
       cells |-> cells] >>

Html(p) == [kind |-> "html", tables |-> p]
PageError == [kind |-> "error", tables |-> <<>>]

\* the answers that do not parse to an array: request failed, not JSON, a JSON object
NoArrayResponses == {[kind |-> k, arr |-> <<>>] : k \in {"error", "notjson", "object"}}

\* the array of n elements, each a list of URLs, the URLs handed out by o
ResponseArray(n, urls, o) == [kind |-> "array", arr |-> [i \in 1..n |-> Part(urls, o, i)]]

GoodResponse == [kind |-> "array", arr |-> << <<>>, <<>>, <<>>, <<"u1">> >>]

SampleSearch ==
    {GoodResponse, [kind |-> "error", arr |-> <<>>], [kind |-> "array", arr |-> << <<>>, <<>>, <<>>, <<>> >>]}

SamplePage ==
    << [classes |-> {"wikitable"}, spans |-> << <<"1">> >>, cells |-> <<>>],
       [classes |-> {"wikitable", "wikiepisodetable"}, spans |-> <<>>,
        cells |-> << <<"a", Quote, "b", Quote>>, <<Quote, "a", Quote, "b">> >>] >>

SamplePages ==
    {PageError, Html(SamplePage), Html(<<>>),
     Html(<<[classes |-> {"wikitable", "wikiepisodetable"}, spans |-> << <<"1">> >>,
             cells |-> << <<"a", "a">> >>]>>)}

\* '' (no --log-config), a valid configuration, a file that is not JSON,
\* JSON that dictConfig rejects, a path that cannot be opened
LoggerConfigs == {"", "valid", "notjson", "badschema", "nofile"}

\* ------------------------------------------------------- pure functions
\* str.split(sep) for a one-character separator
RECURSIVE split(_, _)
split(text, sep) ==
    IF text = <<>> THEN << <<>> >>
    ELSE LET rest == split(Tail(text), sep) IN
         IF Head(text) = sep THEN << <<>> >> \o rest
         ELSE << <<Head(text)>> \o Head(rest) >> \o Tail(rest)


\* f'Season {key}'
SeasonKeyBare(key) == key

SeasonKey(key) == SeasonPrefix \o key

\* entry.text.split('"')[1]: the title, or the IndexError of the indexing
EntryTitleFirstSegment(text) ==
    LET parts == split(text, Quote) IN
    [ok |-> TRUE, val |-> parts[FirstIndex + 1]]

EntryTitleLenient(text) ==
    LET parts == split(text, Quote) IN
    IF Len(parts) > TitleIndex THEN [ok |-> TRUE, val |-> parts[TitleIndex + 1]]
    ELSE [ok |-> TRUE, val |-> <<>>]

EntryTitle(text) ==
    LET parts == split(text, Quote) IN
    IF Len(parts) > TitleIndex THEN [ok |-> TRUE, val |-> parts[TitleIndex + 1]]
    ELSE [ok |-> FALSE, val |-> <<>>]

\* [entry.text.split('"')[1] for entry in value.find_all('td', class_='summary')]
EpisodeTitles(table) ==
    LET titles == [j \in DOMAIN table.cells |-> EntryTitle(table.cells[j])] IN
    IF \E j \in DOMAIN titles : ~titles[j].ok THEN [ok |-> FALSE, val |-> <<>>]
    ELSE [ok |-> TRUE, val |-> [j \in DOMAIN titles |-> titles[j].val]]

\* zip(seasons_numbers, season_episodes)
zipAlignEnd(a, b) ==
    LET m == Min(Len(a), Len(b)) IN
    [i \in 1..m |-> <<a[Len(a) - m + i], b[Len(b) - m + i]>>]

zipLongest(a, b) ==
    LET m == IF Len(a) > Len(b) THEN Len(a) ELSE Len(b) IN
    [i \in 1..m |-> <<IF i <= Len(a) THEN a[i] ELSE <<"N", "o", "n", "e">>,
                      IF i <= Len(b) THEN b[i]
                      ELSE [classes |-> {}, spans |-> <<>>, cells |-> <<>>]>>]

zip(a, b) == [i \in 1..Min(Len(a), Len(b)) |-> <<a[i], b[i]>>]

\* d[k] = v on a dict: an existing key keeps its place and takes the new value
DictAppend(d, k, v) == Append(d, <<k, v>>)

DictSet(d, k, v) ==
    IF \E i \in DOMAIN d : d[i][1] = k
    THEN [i \in DOMAIN d |-> IF d[i][1] = k THEN <<k, v>> ELSE d[i]]
    ELSE Append(d, <<k, v>>)

\* {f'Season {key}': [...] for key, value in pairs}, pair by pair
RECURSIVE DictComprehension(_, _)
DictComprehension(pairs, d) ==
    IF pairs = <<>> THEN [ok |-> TRUE, val |-> d]
    ELSE LET key == Head(pairs)[1]
             value == Head(pairs)[2]
             titles == EpisodeTitles(value)
         IN IF ~titles.ok THEN [ok |-> FALSE, val |-> <<>>]
            ELSE DictComprehension(Tail(pairs), DictSet(d, SeasonKey(key), titles.val))

\* soup.find('table', class_=cls): the first table whose classes include cls
findLast(tables, cls) ==
    IF \E i \in DOMAIN tables : cls \in tables[i].classes
    THEN CHOOSE i \in DOMAIN tables :
            /\ cls \in tables[i].classes
            /\ \A j \in DOMAIN tables : cls \in tables[j].classes => j <= i
    ELSE 0

RECURSIVE findFrom(_, _, _)
findFrom(tables, cls, i) ==
    IF i > Len(tables) THEN 0
    ELSE IF cls \in tables[i].classes THEN i
    ELSE findFrom(tables, cls, i + 1)

find(tables, cls) == findFrom(tables, cls, 1)

\* soup.find_all('table', class_=cls)
find_all(tables, cls) == SelectSeq(tables, LAMBDA t : cls \in t.classes)

\* search_response.json()[3][0]
ResolveLastUrl(response) ==
    IF response.kind = "notjson" THEN [fault |-> "JSONDecodeError", url |-> ""]
    ELSE IF response.kind = "object" THEN [fault |-> "KeyError", url |-> ""]
    ELSE IF Len(response.arr) <= ResultsIndex THEN [fault |-> "IndexError", url |-> ""]
    ELSE LET urls == response.arr[ResultsIndex + 1] IN
         IF Len(urls) <= FirstIndex THEN [fault |-> "IndexError", url |-> ""]
         ELSE [fault |-> "", url |-> urls[Len(urls)]]

ResolveUrl(response) ==
    IF response.kind = "notjson" THEN [fault |-> "JSONDecodeError", url |-> ""]
    ELSE IF response.kind = "object" THEN [fault |-> "KeyError", url |-> ""]
    ELSE IF Len(response.arr) <= ResultsIndex THEN [fault |-> "IndexError", url |-> ""]
    ELSE LET urls == response.arr[ResultsIndex + 1] IN
         IF Len(urls) <= FirstIndex THEN [fault |-> "IndexError", url |-> ""]
         ELSE [fault |-> "", url |-> urls[FirstIndex + 1]]

\* ------------------------------------------------------------------ state
NoResponse == [kind |-> "none", arr |-> <<>>]
Event(op, url) == [op |-> op, url |-> url]

InitLocals ==
    /\ pc = "search_request"
    /\ search_response = NoResponse
    /\ series_url = ""
    /\ soup = <<>>
    /\ season_table = 0
    /\ seasons_numbers = <<>>
    /\ season_episodes = <<>>
    /\ result = <<>>
    /\ fault = ""
    /\ exit_status = -1
    /\ stdout = ""
    /\ logging = "unset"
    /\ events = <<>>

\* every search response, against a few pages
InitResolver ==
    /\ \/ web_search \in NoArrayResponses
       \/ \E n \in 0..MaxRespLen, urls \in SeqsUpTo(Urls, MaxUrls) :
             \E o \in Owners(Len(urls), n) : web_search = ResponseArray(n, urls, o)
    /\ web_page \in {PageError, Html(SamplePage)}
    /\ logger_config = ""
    /\ InitLocals

\* every page, behind a search response that resolves: pages of at most
\* MaxTables tables and MaxElems span.nowrap and td.summary elements, and
\* the pages of one table with one or two cells of arbitrary text
InitExtractor ==
    /\ web_search = GoodResponse
    /\ \/ \E cells \in SeqsUpTo(AllTexts, 2) : web_page = Html(TextPage(cells))
       \/ \E n \in 0..MaxTables, spans \in SeqsUpTo(Labels, MaxElems) :
             \E cls \in [1..n -> ClassSets], cells \in SeqsUpTo(SampleTexts, MaxElems - Len(spans)) :
                \E so \in Owners(Len(spans), n), co \in Owners(Len(cells), n) :
                   web_page = Html(StructurePage(cls, spans, so, cells, co))
    /\ logger_config = ""
    /\ InitLocals

\* every --log-config, against a few search responses and pages
InitMain ==
    /\ web_search \in SampleSearch
    /\ web_page \in SamplePages
    /\ logger_config \in LoggerConfigs
    /\ InitLocals

Init == InitResolver \/ InitExtractor \/ InitMain

\* an exception nobody catches: traceback, exit status 1
Raise(exc) ==
    /\ pc' = "exited"
    /\ fault' = exc
    /\ exit_status' = 1

\* search_response = requests.get(api_url, params=parameters, timeout=10)
SearchRequestRetry ==
    /\ pc = "search_request"
    /\ events' = Append(events, Event("search", API_URL))
    /\ IF web_search.kind = "error"
       THEN IF Len(events) < 1
            THEN UNCHANGED <<pc, fault, exit_status, search_response>>
            ELSE Raise("RequestException") /\ UNCHANGED search_response
       ELSE /\ search_response' = web_search
            /\ pc' = "resolve"
            /\ UNCHANGED <<fault, exit_status>>
    /\ UNCHANGED <<logger_config, web_search, web_page, series_url, soup, season_table,
                   seasons_numbers, season_episodes, result, stdout, logging>>

SearchRequest ==
    /\ pc = "search_request"
    /\ events' = Append(events, Event("search", API_URL))
    /\ IF web_search.kind = "error"
       THEN Raise("RequestException") /\ UNCHANGED search_response
       ELSE /\ search_response' = web_search
            /\ pc' = "resolve"
            /\ UNCHANGED <<fault, exit_status>>
    /\ UNCHANGED <<logger_config, web_search, web_page, series_url, soup, season_table,
                   seasons_numbers, season_episodes, result, stdout, logging>>

\* series_url = search_response.json()[3][0]
Resolve ==
    /\ pc = "resolve"
    /\ LET r == ResolveUrl(search_response) IN
       IF r.fault # ""
       THEN Raise(r.fault) /\ UNCHANGED series_url
       ELSE /\ series_url' = r.url
            /\ pc' = "fetch"
            /\ UNCHANGED <<fault, exit_status>>
    /\ UNCHANGED <<logger_config, web_search, web_page, search_response, soup, season_table,
                   seasons_numbers, season_episodes, result, stdout, logging, events>>

\* series_response = requests.get(series_url, timeout=10)
\* soup = Bfs(series_response.text, features="html.parser")
FetchPage ==
    /\ pc = "fetch"
    /\ events' = Append(events, Event("fetch", series_url))
    /\ IF web_page.kind = "error"
       THEN Raise("RequestException") /\ UNCHANGED soup
       ELSE /\ soup' = web_page.tables
            /\ pc' = "find_tables"
            /\ UNCHANGED <<fault, exit_status>>
    /\ UNCHANGED <<logger_config, web_search, web_page, search_response, series_url,
                   season_table, seasons_numbers, season_episodes, result, stdout, logging>>

\* season_table = soup.find('table', class_='wikitable')
\* seasons_numbers = [item.text for item in season_table.find_all('span', class_='nowrap')]
\* season_episodes = soup.find_all('table', class_='wikiepisodetable')
FindTables ==
    /\ pc = "find_tables"
    /\ events' = Append(events, Event("parse", ""))
    /\ season_table' = find(soup, "wikitable")
    /\ IF season_table' = 0
       THEN Raise("AttributeError") /\ UNCHANGED <<seasons_numbers, season_episodes>>
       ELSE /\ seasons_numbers' = soup[season_table'].spans
            /\ season_episodes' = find_all(soup, "wikiepisodetable")
            /\ pc' = "build"
            /\ UNCHANGED <<fault, exit_status>>
    /\ UNCHANGED <<logger_config, web_search, web_page, search_response, series_url, soup,
                   result, stdout, logging>>

\* return {f'Season {key}': [...] for key, value in zip(seasons_numbers, season_episodes)}
BuildResult ==
    /\ pc = "build"
    /\ LET r == DictComprehension(zip(seasons_numbers, season_episodes), <<>>) IN
       IF ~r.ok
       THEN Raise("IndexError") /\ UNCHANGED <<result, events>>
       ELSE /\ result' = r.val
            /\ events' = Append(events, Event("return", ""))
            /\ pc' = "setup_logging"
            /\ UNCHANGED <<fault, exit_status>>
    /\ UNCHANGED <<logger_config, web_search, web_page, search_response, series_url, soup,
                   season_table, seasons_numbers, season_episodes, stdout, logging>>

\* setup_logging(args.log_level, args.logger_config), then main returns
SetupLogging ==
    /\ pc = "setup_logging"
    /\ pc' = "exited"
    /\ IF logger_config = ""
       THEN /\ logging' = "coloredlogs"
            /\ exit_status' = 0
            /\ UNCHANGED <<fault, stdout>>
       ELSE IF logger_config = "nofile"
       THEN /\ fault' = "FileNotFoundError"
            /\ exit_status' = 1
            /\ UNCHANGED <<logging, stdout>>
       ELSE IF logger_config \in {"notjson", "badschema"}
       THEN /\ stdout' = NotValidJson
            /\ exit_status' = 1
            /\ UNCHANGED <<fault, logging>>
       ELSE /\ logging' = "dictConfig"
            /\ exit_status' = 0
            /\ UNCHANGED <<fault, stdout>>
    /\ UNCHANGED <<logger_config, web_search, web_page, search_response, series_url, soup,
                   season_table, seasons_numbers, season_episodes, result, events>>

Next ==
    \/ SearchRequest
    \/ Resolve
    \/ FetchPage
    \/ FindTables
    \/ BuildResult
    \/ SetupLogging

Spec == Init /\ [][Next]_vars

\* ----------------------------------------------------------- properties
\* The page as served, read independently of the locals of search_series.
Page == web_page.tables
HasEvent(op) == \E i \in DOMAIN events : events[i].op = op
Returned == HasEvent("return")
\* the page was fetched and search_series has run to its end
Extracted ==
    /\ web_page.kind = "html"
    /\ HasEvent("fetch")
    /\ pc \in {"setup_logging", "exited"}
WikiIdx == {i \in DOMAIN Page : "wikitable" \in Page[i].classes}
EpIdx == {i \in DOMAIN Page : "wikiepisodetable" \in Page[i].classes}
HasWikitable == WikiIdx # {}
FirstWiki == CHOOSE i \in WikiIdx : \A j \in WikiIdx : i <= j
PageLabels == Page[FirstWiki].spans
NumEpisodeTables == Cardinality(EpIdx)
NthEpisode(k) == Page[CHOOSE i \in EpIdx : Cardinality({j \in EpIdx : j <= i}) = k]
Paired == Min(Len(PageLabels), NumEpisodeTables)
QuotesAt(text) == {i \in DOMAIN text : text[i] = Quote}
QuoteCount(text) == Cardinality(QuotesAt(text))
FirstQuote(text) == CHOOSE i \in QuotesAt(text) : \A j \in QuotesAt(text) : i <= j
LaterQuotes(text) == {i \in QuotesAt(text) : i > FirstQuote(text)}
SecondQuote(text) == CHOOSE i \in LaterQuotes(text) : \A j \in LaterQuotes(text) : i <= j
\* the text between the first and the second quote character
BetweenQuotes(text) == SubSeq(text, FirstQuote(text) + 1, SecondQuote(text) - 1)
\* the text after the first quote, up to the second quote or the end
AfterFirstQuote(text) ==
    IF LaterQuotes(text) = {} THEN SubSeq(text, FirstQuote(text) + 1, Len(text))
    ELSE BetweenQuotes(text)
TitleList(table) == [j \in DOMAIN table.cells |-> AfterFirstQuote(table.cells[j])]
KeyOf(label) == <<"S", "e", "a", "s", "o", "n", " ">> \o label
PairedCells == {<<i, j>> \in (1..Paired) \X (1..MaxElems + 1) : j <= Len(NthEpisode(i).cells)}
CellText(c) == NthEpisode(c[1]).cells[c[2]]
\* position i is the last of the paired positions that carries its label
LastOfLabel(i) == \A j \in (i + 1)..Paired : PageLabels[j] # PageLabels[i]
DistinctLabels == \A i, j \in DOMAIN PageLabels : i # j => PageLabels[i] # PageLabels[j]

\* C1 as stated: on every page with N season labels in the wikitable table and
\* N episode tables, search_series returns exactly N entries, the i-th key
\* 'Season <i-th label>', the i-th value as long as the i-th table's summary cells.
C1_AsStated ==
    (Extracted /\ HasWikitable /\ Len(PageLabels) = NumEpisodeTables) =>
        /\ Returned
        /\ Len(result) = NumEpisodeTables
        /\ \A i \in 1..NumEpisodeTables :
              /\ result[i][1] = KeyOf(PageLabels[i])
              /\ Len(result[i][2]) = Len(NthEpisode(i).cells)

\* C1 amended: the same, on pages whose N labels are pairwise distinct and whose
\* summary cells in the episode tables each contain a double quote.
C1_EntriesPerSeason ==
    (/\ Extracted /\ HasWikitable /\ Len(PageLabels) = NumEpisodeTables
     /\ DistinctLabels
     /\ \A c \in PairedCells : QuoteCount(CellText(c)) >= 1) =>
        /\ Returned
        /\ Len(result) = NumEpisodeTables
        /\ \A i \in 1..NumEpisodeTables :
              /\ result[i][1] = KeyOf(PageLabels[i])
              /\ Len(result[i][2]) = Len(NthEpisode(i).cells)

C1_Witness ==
    /\ Extracted /\ HasWikitable /\ Returned
    /\ Len(PageLabels) = 2 /\ NumEpisodeTables = 2 /\ DistinctLabels
    /\ Len(result) = 2
    /\ Len(result[1][2]) = 1

\* C2: labels and episode tables are paired by position; only the first
\* min(#labels, #tables) pairs are used: the run returns exactly when every
\* cell of those tables can be split, the keys are the labels of those positions,
\* each taking the titles of the table at its position, and surplus labels or
\* tables never cause a fault.
C2_PositionalPairing ==
    (Extracted /\ HasWikitable) =>
        /\ Returned <=> (\A c \in PairedCells : QuoteCount(CellText(c)) >= 1)
        /\ ~Returned => fault = "IndexError"
        /\ Returned =>
              /\ {result[k][1] : k \in DOMAIN result} = {KeyOf(PageLabels[i]) : i \in 1..Paired}
              /\ \A i \in 1..Paired : LastOfLabel(i) =>
                    \E k \in DOMAIN result :
                        result[k] = <<KeyOf(PageLabels[i]), TitleList(NthEpisode(i))>>

C2_Witness ==
    /\ Extracted /\ HasWikitable /\ Returned
    /\ Len(PageLabels) = 1 /\ NumEpisodeTables = 2
    /\ Len(NthEpisode(1).cells) = 1
    /\ \E j \in DOMAIN NthEpisode(2).cells : QuoteCount(NthEpisode(2).cells[j]) = 0
    /\ Len(result) = 1

\* C3 as stated: every summary cell of a paired table has a first and a second
\* double quote, and its title in the result is the text between them, titles
\* in the order of the cells.
C3_AsStated ==
    Returned =>
        \A i \in 1..Paired : LastOfLabel(i) =>
            \E k \in DOMAIN result :
                /\ result[k][1] = KeyOf(PageLabels[i])
                /\ Len(result[k][2]) = Len(NthEpisode(i).cells)
                /\ \A j \in DOMAIN NthEpisode(i).cells :
                      /\ QuoteCount(NthEpisode(i).cells[j]) >= 2
                      /\ result[k][2][j] = BetweenQuotes(NthEpisode(i).cells[j])

\* C3 amended: the title of a cell is the text after its first double quote up
\* to its second double quote or, when it has none, to the end of the text;
\* titles are in the order of the cells.
C3_TitleAfterFirstQuote ==
    Returned =>
        \A i \in 1..Paired : LastOfLabel(i) =>
            \E k \in DOMAIN result :
                /\ result[k][1] = KeyOf(PageLabels[i])
                /\ Len(result[k][2]) = Len(NthEpisode(i).cells)
                /\ \A j \in DOMAIN NthEpisode(i).cells :
                      /\ QuoteCount(NthEpisode(i).cells[j]) >= 1
                      /\ result[k][2][j] = AfterFirstQuote(NthEpisode(i).cells[j])

C3_Witness ==
    /\ Returned
    /\ Paired = 1
    /\ NthEpisode(1).cells = << <<"a", Quote, "b", Quote>>, <<"b", Quote, "a", Quote>> >>
    /\ result = << <<KeyOf(<<"1">>), << <<"b">>, <<"a">> >> >> >>

\* C4: a run with --log-config pointing to a file that is not JSON ends with
\* exit status 1 and the 'is not valid json' message, whatever the search
\* request, the page fetch and the extraction did.
C4_InvalidConfigExits ==
    (pc = "exited" /\ logger_config = "notjson") =>
        /\ exit_status = 1
        /\ stdout = NotValidJson

\* C5 as stated: a summary cell of a paired table with fewer than two double
\* quotes makes search_series end in an index fault without a mapping.
C5_AsStated ==
    (/\ Extracted /\ HasWikitable
     /\ \E c \in PairedCells : QuoteCount(CellText(c)) < 2) =>
        /\ fault = "IndexError"
        /\ ~Returned
        /\ result = <<>>

\* C5 amended: a summary cell of a paired table with no double quote makes
\* search_series end in an index fault without a mapping.
C5_NoQuoteFaults ==
    (/\ Extracted /\ HasWikitable
     /\ \E c \in PairedCells : QuoteCount(CellText(c)) = 0) =>
        /\ fault = "IndexError"
        /\ ~Returned
        /\ result = <<>>

C5_Witness ==
    /\ Extracted /\ HasWikitable
    /\ \E c \in PairedCells : QuoteCount(CellText(c)) = 0 /\ Len(CellText(c)) > 0
    /\ fault = "IndexError"
    /\ pc = "exited"

\* C6: when the wikitable table holds no season label, search_series returns
\* the empty mapping without a fault, whatever episode tables and cells exist.
C6_NoLabelsEmptyMapping ==
    (Extracted /\ HasWikitable /\ PageLabels = <<>>) =>
        /\ Returned
        /\ result = <<>>
        /\ fault \notin {"IndexError", "AttributeError"}

C6_Witness ==
    /\ Extracted /\ HasWikitable /\ PageLabels = <<>>
    /\ NumEpisodeTables >= 1
    /\ \E j \in DOMAIN NthEpisode(1).cells : QuoteCount(NthEpisode(1).cells[j]) = 0
    /\ Returned

\* C7: the article fetched is the first URL of the fourth element of the
\* response array; with fewer than four elements or an empty fourth element
\* the run ends in an IndexError and no page fetch is issued.
C7_FirstUrlOfFourth ==
    (search_response.kind = "array" /\ pc # "resolve") =>
        LET arr == web_search.arr IN
        IF Len(arr) >= 4 /\ Len(arr[4]) >= 1
        THEN /\ series_url = arr[4][1]
             /\ \A i \in DOMAIN events : events[i].op = "fetch" => events[i].url = arr[4][1]
        ELSE /\ fault = "IndexError"
             /\ pc = "exited"
             /\ ~HasEvent("fetch")

C7_Witness ==
    /\ search_response.kind = "array"
    /\ Len(web_search.arr) = 4
    /\ Len(web_search.arr[4]) = 2
    /\ web_search.arr[4][1] # web_search.arr[4][2]
    /\ web_search.arr[3] # web_search.arr[4]
    /\ HasEvent("fetch")
    /\ series_url = web_search.arr[4][1]

\* C8: the steps of a run are a prefix of search, fetch, parse, return: one
\* search request, a page fetch only after the search answered, no request
\* repeated, and a failed request ends the run with nothing done after it.
StepOrder == <<"search", "fetch", "parse", "return">>

C8_Sequential ==
    /\ Len(events) <= Len(StepOrder)
    /\ \A i \in DOMAIN events : events[i].op = StepOrder[i]
    /\ pc # "search_request" => HasEvent("search")
    /\ HasEvent("fetch") => (web_search.kind # "error" /\ search_response = web_search)
    /\ web_search.kind = "error" /\ HasEvent("search") =>
          (pc = "exited" /\ fault = "RequestException" /\ Len(events) = 1)
    /\ web_page.kind = "error" /\ HasEvent("fetch") =>
          (pc = "exited" /\ fault = "RequestException" /\ Len(events) = 2)
    /\ fault = "RequestException" =>
          (pc = "exited" /\ result = <<>> /\ logging = "unset" /\ stdout = "")

C8_Witness ==
    /\ pc = "exited"
    /\ fault = "RequestException"
    /\ Len(events) = 2
    /\ events[2].op = "fetch"

\* C9: without a table of class wikitable the run ends in a fault at the label
\* search and returns no mapping, however many episode tables there are; with
\* several such tables the labels are those of the first one only.
C9_FirstWikitable ==
    (web_page.kind = "html" /\ HasEvent("parse")) =>
        IF ~HasWikitable
        THEN /\ fault = "AttributeError"
             /\ pc = "exited"
             /\ ~Returned
             /\ result = <<>>
        ELSE /\ season_table = FirstWiki
             /\ seasons_numbers = Page[FirstWiki].spans
             /\ Returned => \A k \in DOMAIN result :
                   \E i \in DOMAIN Page[FirstWiki].spans :
                       result[k][1] = KeyOf(Page[FirstWiki].spans[i])

C9_Witness ==
    /\ web_page.kind = "html" /\ Returned
    /\ Cardinality(WikiIdx) = 2
    /\ \E i \in WikiIdx : i # FirstWiki /\ Page[i].spans # <<>>
                          /\ Page[i].spans # Page[FirstWiki].spans
    /\ result # <<>>

\* C10: the mapping has one entry per distinct label among the paired
\* positions; a label that occurs several times keeps the titles of the last
\* table paired with it.
C10_DuplicateLabels ==
    Returned =>
        /\ Len(result) = Cardinality({PageLabels[i] : i \in 1..Paired})
        /\ \A i \in 1..Paired :
              LET last == CHOOSE j \in i..Paired :
                              /\ PageLabels[j] = PageLabels[i]
                              /\ \A h \in (j + 1)..Paired : PageLabels[h] # PageLabels[i]
              IN \E k \in DOMAIN result :
                     result[k] = <<KeyOf(PageLabels[i]), TitleList(NthEpisode(last))>>

C10_Witness ==
    /\ Returned
    /\ Paired = 2
    /\ PageLabels[1] = PageLabels[2]
    /\ TitleList(NthEpisode(1)) # TitleList(NthEpisode(2))
    /\ Len(result) = 1

====
